---- MODULE Spec2Model ----
(***************************************************************************)
(* Model of croncycle-rs (src/main.rs): a loop that computes the next     *)
(* occurrence of a cron schedule, polls the wall clock until it arrives,  *)
(* runs a child process synchronously and interprets its exit status.     *)
(*                                                                         *)
(* Time is counted in units of the 100 ms poll interval.  The wall clock  *)
(* is an environment variable: it advances on its own and may be set to   *)
(* another value by the operator of the machine.                          *)
(***************************************************************************)
EXTENDS Integers, FiniteSets, Sequences, TLC

\* ---------------------------------------------------------------- bounds
MaxTime == 6        \* wall clock readings range over 0..MaxTime
MaxCode == 2        \* child exit codes range over 0..MaxCode
MaxPeriod == 3      \* schedules fire every 2..MaxPeriod time units
PipeCap == 2        \* units of data an unread pipe holds before a write blocks

\* ------------------------------------------------------- program constants
PanicCode == 101    \* exit code of a Rust process that panics
SleepTicks == 1     \* thread::sleep(Duration::from_millis(100)), in units

None == -1

VARIABLES
    cli,          \* parsed command line (read-only after construction)
    pc,           \* position of main()
    clock,        \* wall clock (environment)
    cursor,       \* clock value read by schedule.upcoming(Local)
    next_run,     \* let next_run
    now,          \* let now
    skipped,      \* an occurrence lies between the previous next_run and this one
    fresh,        \* next_run was computed in this iteration and not launched yet
    slept,        \* time elapsed in the current thread::sleep
    prev_early,   \* the previous clock reading of this iteration was before next_run
    adjusted,     \* last clock adjustment since the wait began: "none", "back", "fwd"
    running,      \* number of live child processes
    child_status, \* exit status left by the last child that ended
    pipe_fill,    \* data sitting in the stderr pipe of the running child
    child_blocked,\* the child is stuck in a write to the full stderr pipe
    child_stdio,  \* stdio wiring of the last launch
    outcome,      \* value of command_proc.status()
    last_log,     \* last record handed to the logger
    spinner_msg,  \* last spinner.set_message
    exit_code     \* exit code of this program once terminated

vars == <<cli, pc, clock, cursor, next_run, now, skipped, fresh, slept, prev_early, adjusted, running,
          pipe_fill, child_blocked, child_status, child_stdio, outcome, last_log, spinner_msg, exit_code>>

\* ------------------------------------------------------------ cron schedule
\* A cron expression is abstracted to: does it parse, how often it fires,
\* and whether its year field bounds the occurrences (last one at `until`).
InvalidCron == [valid |-> FALSE, every |-> 1, bounded |-> FALSE, until |-> 0]

Periods == 2..MaxPeriod

Schedules ==
    {InvalidCron}
    \cup {[valid |-> TRUE, every |-> p, bounded |-> FALSE, until |-> 0] : p \in Periods}
    \cup {[valid |-> TRUE, every |-> 2, bounded |-> TRUE, until |-> 4]}

IsOccurrence(s, t) ==
    /\ t >= 0
    /\ t % s.every = 0
    /\ (s.bounded => t <= s.until)

\* ScheduleIterator::next: first occurrence strictly after t, or None
NextAfter(s, t) ==
    LET c == ((t \div s.every) + 1) * s.every
    IN IF s.bounded /\ c > s.until THEN None ELSE c

\* schedule.upcoming(Local).next(): the iterator starts from the clock
UpcomingNextIter(s) == NextAfter(s, IF next_run # None THEN next_run ELSE clock)

UpcomingNext(s) == NextAfter(s, clock)

\* ------------------------------------------------------------ exit statuses
Codes == 0..MaxCode

NoStatus == [kind |-> "None", code |-> None]
Signaled == [kind |-> "Signal", code |-> None]
SpawnErr == [kind |-> "Err", code |-> None]
Exited(c) == [kind |-> "Exit", code |-> c]

ChildStatuses == {Exited(c) : c \in Codes} \cup {Signaled}

\* ExitStatus::success
Success(st) == st.kind = "Exit" /\ st.code = 0

\* status.code().unwrap_or_default()
CodeOrDefault(st) == IF st.kind = "Exit" THEN st.code ELSE 0

\* std::process::exit: the parent sees the low 8 bits
ProcessExit(c) == c % 256

\* cli.exit_on_error && !cli.ignored_codes.contains(&code), under command line c
ShouldStopNoIgnore(c, st) == c.exit_on_error

ShouldStopAlways(c, st) == CodeOrDefault(st) \notin c.ignored_codes

ShouldStop(c, st) ==
    c.exit_on_error /\ CodeOrDefault(st) \notin c.ignored_codes

\* the decision taken by the match on command_proc.status()
Continue == [stop |-> FALSE, code |-> None]
Stop(code) == [stop |-> TRUE, code |-> code]

DecisionErrStops(c, st) ==
    IF Success(st) THEN Continue
    ELSE IF ShouldStop(c, st) THEN Stop(CodeOrDefault(st))
    ELSE Continue

Decision(c, st) ==
    IF st.kind = "Err" THEN Continue
    ELSE IF Success(st) THEN Continue
    ELSE IF ShouldStop(c, st) THEN Stop(CodeOrDefault(st))
    ELSE Continue

\* ------------------------------------------------------------------ logging
NoLog == [level |-> "none", msg |-> "", status |-> NoStatus]
LogRec(l, m, st) == [level |-> l, msg |-> m, status |-> st]

NoMsg == [text |-> "", status |-> NoStatus]
Msg(t, st) == [text |-> t, status |-> st]

\* ---------------------------------------------------------------- stdio
NoStdio == [stdin |-> "unset", stdout |-> "unset", stderr |-> "unset"]

StdinOfUnlessQuiet(c) == IF c.enable_stdin /\ ~c.no_output THEN "inherit" ELSE "null"

StdinOf(c) == IF c.enable_stdin THEN "inherit" ELSE "null"

StdoutOf(c) == IF c.no_output THEN "null" ELSE "inherit"

StderrOf(c) == IF c.stderr_to_stdout THEN "inherit" ELSE "piped"

\* where a child stream ends up: Stdio::inherit() hands the child the parent's
\* stream of the same name
DestOf(stream, stdio) == IF stdio = "inherit" THEN <<"parent", stream>> ELSE <<stdio>>

Wiring(c) == [stdin |-> StdinOf(c), stdout |-> StdoutOf(c), stderr |-> StderrOf(c)]

\* ------------------------------------------------------------------- Init
IgnoredSets == SUBSET Codes

InitWith(crons, stops, ignored, flags) ==
    /\ cli \in [cron : crons, exit_on_error : stops, ignored_codes : ignored,
                enable_stdin : flags, stderr_to_stdout : flags, no_output : flags]
    /\ pc = "Parsing"
    /\ clock = 0
    /\ cursor = None
    /\ next_run = None
    /\ now = None
    /\ skipped = FALSE
    /\ fresh = FALSE
    /\ slept = 0
    /\ prev_early = FALSE
    /\ adjusted = "none"
    /\ running = 0
    /\ child_status = NoStatus
    /\ pipe_fill = 0
    /\ child_blocked = FALSE
    /\ child_stdio = NoStdio
    /\ outcome = NoStatus
    /\ last_log = NoLog
    /\ spinner_msg = NoMsg
    /\ exit_code = None

Init == InitWith(Schedules, BOOLEAN, IgnoredSets, {FALSE})

\* every I/O switch combination, under one schedule and one exit configuration
EveryTwo == [valid |-> TRUE, every |-> 2, bounded |-> FALSE, until |-> 0]

InitIO == InitWith({EveryTwo}, {FALSE}, {{}}, BOOLEAN)

\* --------------------------------------------------------------- actions
\* Schedule::from_str(&cli.cron) is Ok
ParseOkLenient(c) == TRUE

ParseOk(c) == c.valid

\* Schedule::from_str(&cli.cron).expect(..)
Parse ==
    /\ pc = "Parsing"
    /\ IF ParseOk(cli.cron)
       THEN pc' = "ComputingNext" /\ exit_code' = exit_code
       ELSE pc' = "Terminated" /\ exit_code' = PanicCode
    /\ UNCHANGED <<pipe_fill, child_blocked, prev_early, adjusted, cli, clock, cursor, next_run, now, skipped, fresh, slept, running,
                   child_status, child_stdio, outcome, last_log, spinner_msg>>

\* let next_run = schedule.upcoming(Local).next().unwrap();
ComputeNext ==
    /\ pc = "ComputingNext"
    /\ LET n == UpcomingNext(cli.cron)
       IN IF n = None
          THEN /\ pc' = "Terminated"
               /\ exit_code' = PanicCode
               /\ UNCHANGED <<cursor, next_run, skipped, fresh>>
          ELSE /\ pc' = "CheckStale"
               /\ cursor' = clock
               /\ next_run' = n
               /\ skipped' = (next_run # None /\ NextAfter(cli.cron, next_run) # None
                              /\ NextAfter(cli.cron, next_run) < n)
               /\ fresh' = TRUE
               /\ UNCHANGED exit_code
    /\ UNCHANGED <<pipe_fill, child_blocked, prev_early, adjusted, cli, clock, now, slept, running, child_status, child_stdio,
                   outcome, last_log, spinner_msg>>

\* next_run <= now
IsStaleStrict(nr, t) == nr < t

IsStale(nr, t) == nr <= t

\* let now = Local::now(); if next_run <= now { warn; continue }
CheckStale ==
    /\ pc = "CheckStale"
    /\ now' = clock
    /\ prev_early' = (clock < next_run)
    /\ adjusted' = "none"
    /\ IF IsStale(next_run, clock)
       THEN /\ spinner_msg' = Msg("Next run is in the past", NoStatus)
            /\ last_log' = LogRec("warn", "Next run is in the past", NoStatus)
            /\ fresh' = FALSE
            /\ pc' = "ComputingNext"
       ELSE /\ spinner_msg' = Msg("Next run at", NoStatus)
            /\ pc' = "IdleCheck"
            /\ UNCHANGED <<last_log, fresh>>
    /\ UNCHANGED <<pipe_fill, child_blocked, cli, clock, cursor, next_run, skipped, slept, running, child_status,
                   child_stdio, outcome, exit_code>>

\* Local::now() < next_run
KeepWaitingEarly(t, nr) == t + 1 < nr

KeepWaitingInclusive(t, nr) == t <= nr

KeepWaiting(t, nr) == t < nr

\* while Local::now() < next_run { spinner.tick(); thread::sleep(..) }
IdleCheck ==
    /\ pc = "IdleCheck"
    /\ IF KeepWaiting(clock, next_run)
       THEN pc' = "Sleeping" /\ slept' = 0 /\ prev_early' = (clock < next_run)
       ELSE pc' = "Launching" /\ slept' = slept /\ prev_early' = prev_early
    /\ UNCHANGED <<pipe_fill, child_blocked, cli, clock, cursor, next_run, now, skipped, fresh, adjusted, running,
                   child_status, child_stdio, outcome, last_log, spinner_msg, exit_code>>

\* thread::sleep returns once at least the duration has elapsed
WakeUp ==
    /\ pc = "Sleeping"
    /\ slept >= SleepTicks
    /\ pc' = "IdleCheck"
    /\ slept' = 0
    /\ UNCHANGED <<pipe_fill, child_blocked, prev_early, adjusted, cli, clock, cursor, next_run, now, skipped, fresh, running,
                   child_status, child_stdio, outcome, last_log, spinner_msg, exit_code>>

\* position of main() after a child has been spawned: status() waits for it
AfterSpawnNoWait == "ComputingNext"

AfterSpawn == "Waiting"

\* spinner.set_message("Running job..."); build the command; status() spawns
Launch ==
    /\ pc = "Launching"
    /\ spinner_msg' = Msg("Running job...", NoStatus)
    /\ child_stdio' = Wiring(cli)
    /\ fresh' = FALSE
    /\ cursor' = None
    /\ now' = None
    /\ prev_early' = FALSE
    /\ adjusted' = "none"
    /\ pipe_fill' = 0
    /\ child_blocked' = FALSE
    /\ \/ /\ running' = running + 1
          /\ pc' = AfterSpawn
          /\ outcome' = outcome
       \/ /\ running' = running
          /\ pc' = "Evaluating"
          /\ outcome' = SpawnErr
    /\ UNCHANGED <<cli, clock, next_run, skipped, slept, child_status, last_log, exit_code>>

\* the child writes one unit of data to its stderr: into the pipe when stderr
\* is piped (nobody reads it; a write to a full pipe blocks), else to the
\* stream it was given
ChildWrite ==
    /\ running > 0
    /\ ~child_blocked
    /\ IF child_stdio.stderr = "piped"
       THEN IF pipe_fill < PipeCap
            THEN pipe_fill' = pipe_fill + 1 /\ child_blocked' = FALSE
            ELSE pipe_fill' = pipe_fill /\ child_blocked' = TRUE
       ELSE UNCHANGED <<pipe_fill, child_blocked>>
    /\ UNCHANGED <<prev_early, adjusted, cli, pc, clock, cursor, next_run, now, skipped,
                   fresh, slept, running, child_status, child_stdio, outcome, last_log,
                   spinner_msg, exit_code>>

\* the child ends by itself, with an exit code or killed by a signal
ChildExit ==
    /\ running > 0
    /\ ~child_blocked
    /\ running' = running - 1
    /\ child_status' \in ChildStatuses
    /\ UNCHANGED <<prev_early, adjusted, cli, pc, clock, cursor, next_run, now, skipped, fresh,
                   slept, pipe_fill, child_blocked, child_stdio, outcome, last_log,
                   spinner_msg, exit_code>>

\* command_proc.status() returns Ok(status) once the child has ended
WaitReturn ==
    /\ pc = "Waiting"
    /\ running = 0
    /\ outcome' = child_status
    /\ child_status' = NoStatus
    /\ pipe_fill' = 0
    /\ child_blocked' = child_blocked
    /\ pc' = "Evaluating"
    /\ UNCHANGED <<prev_early, adjusted, cli, clock, cursor, next_run, now, skipped, fresh, slept, running,
                   child_stdio, last_log, spinner_msg, exit_code>>

\* match command_proc.status() { .. }
Evaluate ==
    /\ pc = "Evaluating"
    /\ outcome' = NoStatus
    /\ IF outcome.kind = "Err"
       THEN /\ last_log' = LogRec("error", "Failed to execute command", NoStatus)
            /\ spinner_msg' = spinner_msg
       ELSE IF Success(outcome)
       THEN /\ last_log' = LogRec("info", "Command exited with status", outcome)
            /\ spinner_msg' = spinner_msg
       ELSE /\ spinner_msg' = Msg("Error: Command exited with status", outcome)
            /\ last_log' = last_log
    /\ LET d == Decision(cli, outcome)
       IN IF d.stop
          THEN pc' = "Terminated" /\ exit_code' = ProcessExit(d.code)
          ELSE pc' = "ComputingNext" /\ exit_code' = exit_code
    /\ UNCHANGED <<pipe_fill, child_blocked, prev_early, adjusted, cli, clock, cursor, next_run, now, skipped, fresh, slept, running,
                   child_status, child_stdio>>

\* ----------------------------------------------------------- environment
\* time passes
Advance ==
    /\ pc # "Terminated"
    /\ clock < MaxTime
    /\ clock' = clock + 1
    /\ slept' = IF pc = "Sleeping" /\ slept < SleepTicks THEN slept + 1 ELSE slept
    /\ UNCHANGED <<pipe_fill, child_blocked, prev_early, adjusted, cli, pc, cursor, next_run, now, skipped, fresh, running, child_status,
                   child_stdio, outcome, last_log, spinner_msg, exit_code>>

\* the system clock is set to another value
ClockAdjust ==
    /\ pc # "Terminated"
    /\ \E t \in 0..MaxTime :
          /\ t # clock
          /\ clock' = t
          /\ adjusted' = IF pc \notin {"IdleCheck", "Sleeping"} THEN adjusted
                         ELSE IF t < clock THEN "back" ELSE "fwd"
    /\ UNCHANGED <<pipe_fill, child_blocked, prev_early, cli, pc, cursor, next_run, now, skipped, fresh, slept, running,
                   child_status, child_stdio, outcome, last_log, spinner_msg, exit_code>>

Next ==
    \/ Parse
    \/ ComputeNext
    \/ CheckStale
    \/ IdleCheck
    \/ WakeUp
    \/ Launch
    \/ ChildWrite
    \/ ChildExit
    \/ WaitReturn
    \/ Evaluate
    \/ Advance
    \/ ClockAdjust

Spec == Init /\ [][Next]_vars

SpecIO == InitIO /\ [][Next]_vars

\* the steps of main(): a single thread, at most one of them is enabled
ProgramStep ==
    \/ Parse
    \/ ComputeNext
    \/ CheckStale
    \/ IdleCheck
    \/ WakeUp
    \/ Launch
    \/ WaitReturn
    \/ Evaluate

\* a clock that only advances
NextLive ==
    \/ ProgramStep
    \/ ChildWrite
    \/ ChildExit
    \/ Advance

EveryTwoUntilFour == [valid |-> TRUE, every |-> 2, bounded |-> TRUE, until |-> 4]

InitLive == InitWith({EveryTwo, EveryTwoUntilFour}, {FALSE}, {{}}, {FALSE})

\* main() keeps running, a child that can exit does exit, time goes on
SpecLive ==
    /\ InitLive
    /\ [][NextLive]_vars
    /\ WF_vars(ProgramStep)
    /\ WF_vars(ChildExit)
    /\ WF_vars(Advance)

\* ------------------------------------------------------------ properties
\* the step taken by Evaluate (environment steps leave pc alone)
EvaluateStep == pc = "Evaluating" /\ pc' # "Evaluating"

\* C1: with exit_on_error set, a run ending with exit code c continues to
\* ComputingNext when c is ignored; when c is nonzero and not ignored the
\* program terminates on that run with exit code c, and a terminated program
\* launches nothing more.
C1_StopOnNumericCode ==
    [][/\ (EvaluateStep /\ cli.exit_on_error /\ outcome.kind = "Exit") =>
            /\ (outcome.code \in cli.ignored_codes =>
                    pc' = "ComputingNext" /\ exit_code' = None)
            /\ (outcome.code # 0 /\ outcome.code \notin cli.ignored_codes =>
                    pc' = "Terminated" /\ exit_code' = outcome.code /\ running' = 0)
       /\ (pc = "Terminated" => pc' = "Terminated" /\ running' = running
                                 /\ exit_code' = exit_code)]_vars

C1_Witness ==
    /\ pc = "Terminated"
    /\ cli.exit_on_error
    /\ cli.ignored_codes # {}
    /\ spinner_msg.status.kind = "Exit"
    /\ exit_code = spinner_msg.status.code
    /\ exit_code # 0

\* C2: with exit_on_error unset, no exit status of a child that ran ends the
\* program: the evaluation always goes back to ComputingNext.
C2_NoStopWhenUnset ==
    [][(EvaluateStep /\ ~cli.exit_on_error /\ outcome.kind \in {"Exit", "Signal"}) =>
            pc' = "ComputingNext" /\ exit_code' = None]_vars

C2_Witness ==
    /\ pc = "ComputingNext"
    /\ ~cli.exit_on_error
    /\ spinner_msg.text = "Error: Command exited with status"
    /\ spinner_msg.status.kind = "Exit"
    /\ spinner_msg.status.code \notin cli.ignored_codes

\* C3: a launch failure is never a Stop decision and never ends the program:
\* the loop goes back to ComputingNext, whatever exit_on_error and
\* ignored_codes are.
C3_LaunchFailureContinues ==
    [][(EvaluateStep /\ outcome.kind = "Err") =>
            /\ pc' = "ComputingNext"
            /\ exit_code' = None
            /\ last_log'.level = "error"]_vars

C3_Witness ==
    /\ pc = "ComputingNext"
    /\ cli.exit_on_error
    /\ 0 \notin cli.ignored_codes
    /\ last_log.msg = "Failed to execute command"

\* C4: once the expression has parsed, only the evaluation of a run ends the
\* program: computing the next occurrence always succeeds.
C4_OnlyPolicyTerminates ==
    [][(pc \notin {"Parsing", "Evaluating"}) => pc' # "Terminated"]_vars

\* C5: an expression that does not parse ends the program at startup with a
\* nonzero exit code; no occurrence is computed, no wait happens and no child
\* is launched.
C5_InvalidExpressionFailsFast ==
    ~cli.cron.valid =>
        /\ pc \in {"Parsing", "Terminated"}
        /\ next_run = None
        /\ cursor = None
        /\ now = None
        /\ running = 0
        /\ child_stdio = NoStdio
        /\ outcome = NoStatus
        /\ (pc = "Terminated" => exit_code # None /\ exit_code # 0)

C5_Witness == ~cli.cron.valid /\ pc = "Terminated" /\ exit_code # 0

\* C6: at most one child is alive, and a launch begins only when the previous
\* child has ended and its outcome has been evaluated.
C6_NoOverlap ==
    /\ running <= 1
    /\ (pc = "Launching" => running = 0 /\ outcome = NoStatus /\ child_status = NoStatus)

\* a child still running when the occurrence after its own has already passed
C6_Witness ==
    /\ running = 1
    /\ pc = "Waiting"
    /\ NextAfter(cli.cron, next_run) # None
    /\ clock > NextAfter(cli.cron, next_run)

\* C7: a launch is always for the first occurrence strictly after the clock
\* value read when the occurrence was computed, and each computed occurrence is
\* launched at most once: occurrences at or before that clock value are skipped.
C7_MissedAreSkipped ==
    pc = "Launching" =>
        /\ fresh
        /\ cursor # None
        /\ next_run > cursor
        /\ IsOccurrence(cli.cron, next_run)
        /\ \A t \in (cursor + 1)..(next_run - 1) : ~IsOccurrence(cli.cron, t)

C7_Witness == pc = "Launching" /\ skipped /\ next_run > cursor

\* C8: an occurrence that is not strictly later than the clock value read
\* after computing it is reported by a warning and dropped: the loop goes back
\* to ComputingNext without waiting or launching, so a wait or a launch is
\* always for an occurrence later than that clock value.
C8_StaleOccurrenceRecomputed ==
    /\ [](pc \in {"IdleCheck", "Sleeping", "Launching"} => now # None /\ next_run > now)
    /\ [][(pc = "CheckStale" /\ pc' # "CheckStale" /\ next_run <= clock) =>
            /\ pc' = "ComputingNext"
            /\ last_log'.level = "warn"
            /\ running' = running
            /\ child_stdio' = child_stdio]_vars

C8_Witness ==
    /\ pc = "ComputingNext"
    /\ spinner_msg.text = "Next run is in the past"
    /\ next_run = now

\* C9: a child that ran and exited nonzero produces an error-level log record
\* carrying the exit status, whatever exit_on_error and ignored_codes are.
C9_NonZeroExitLogged ==
    [][(EvaluateStep /\ outcome.kind = "Exit" /\ outcome.code # 0) =>
            last_log'.level = "error" /\ last_log'.status = outcome]_vars

\* C10: with stderr_to_stdout set, every launch sends the child's stderr where
\* the child's stdout goes, for both settings of no_output.
C10_StderrFollowsStdout ==
    (cli.stderr_to_stdout /\ child_stdio # NoStdio) =>
        DestOf("stderr", child_stdio.stderr) = DestOf("stdout", child_stdio.stdout)

\* C11: on every launch the child's stdin is the null source exactly when
\* enable_stdin is unset and inherited exactly when it is set, whatever the
\* stdout and stderr switches are, and the same on every launch.
C11_StdinWiring ==
    /\ [](child_stdio # NoStdio =>
            /\ (child_stdio.stdin = "null") = ~cli.enable_stdin
            /\ (child_stdio.stdin = "inherit") = cli.enable_stdin)
    /\ [][child_stdio # NoStdio => child_stdio'.stdin = child_stdio.stdin]_vars

\* a second launch, with stdin enabled while stdout is discarded and stderr merged
C11_Witness ==
    /\ pc = "Waiting"
    /\ last_log.msg = "Command exited with status"
    /\ cli.enable_stdin /\ cli.no_output /\ cli.stderr_to_stdout
    /\ child_stdio.stdin = "inherit"

\* C12: for an outcome that is not a numeric exit code (child killed by a
\* signal, child not started) the decision and the exit code of the program
\* are the same whatever ignored_codes contains.
C12_IgnoredOnlyForNumericCodes ==
    [][(EvaluateStep /\ outcome.kind \in {"Signal", "Err"}) =>
            \A ig \in IgnoredSets :
                LET d == Decision([cli EXCEPT !.ignored_codes = ig], outcome)
                IN /\ (pc' = "Terminated") = d.stop
                   /\ (d.stop => exit_code' = ProcessExit(d.code))]_vars

\* C13: a run that exits with code zero always continues; so a program whose
\* expression parsed ends only on the evaluation of a run that did not exit
\* zero, and never while every run exits zero.
C13_ZeroExitContinues ==
    [][/\ (EvaluateStep /\ Success(outcome)) =>
            pc' = "ComputingNext" /\ exit_code' = None
       /\ (cli.cron.valid /\ pc # "Terminated" /\ pc' = "Terminated") =>
            pc = "Evaluating" /\ ~Success(outcome)]_vars

\* C18: when the exit policy ends the program, the program's exit code is
\* nonzero, for every unsuccessful outcome of the child including a signal.
C18_PolicyStopIsNonZero ==
    [][(EvaluateStep /\ pc' = "Terminated") => exit_code' # 0]_vars

\* the step that leaves the idle wait
LeaveWait == pc = "IdleCheck" /\ pc' = "Launching"

\* C14: the launch is entered only from the wait, at a tick whose clock
\* reading is at or after the computed occurrence; every tick re-reads the
\* clock, and a clock set backward or forward never launches by itself.
C14_NeverBeforeOccurrence ==
    [][/\ (pc # "Launching" /\ pc' = "Launching") => (pc = "IdleCheck" /\ clock >= next_run)
       /\ (pc = "Sleeping" /\ pc' # "Sleeping") => pc' = "IdleCheck"
       /\ (pc = "IdleCheck" /\ clock < next_run /\ pc' # "IdleCheck") => pc' = "Sleeping"
       /\ (clock' < clock \/ clock' > clock + 1) => pc' = pc]_vars

\* a wait that ended in a launch after the clock had been set backward
C14_Witness == pc = "Launching" /\ adjusted = "back" /\ prev_early

\* C15 (as stated): with no clock adjustment during the wait, the reading at
\* which the wait is left is at most one sleep interval after the occurrence.
C15_LagAtMostOneInterval ==
    [][(LeaveWait /\ adjusted = "none") => clock - next_run <= SleepTicks]_vars

\* C15 (amended): with no clock adjustment during the wait, the wait is left
\* at the first reading at or after the occurrence: the reading before it was
\* still earlier than the occurrence.
C15_LeftAtFirstReadingAfter ==
    [][(LeaveWait /\ adjusted = "none") => (prev_early /\ next_run <= clock)]_vars

\* a wait left more than one interval late although the clock was not adjusted
C15_Witness ==
    /\ pc = "Launching"
    /\ adjusted = "none"
    /\ prev_early
    /\ clock > next_run + SleepTicks

\* the phase of the loop that a position of main() belongs to
PhaseOf(p) ==
    CASE p \in {"ComputingNext", "CheckStale"} -> "ComputingNext"
      [] p \in {"IdleCheck", "Sleeping"} -> "Idling"
      [] p \in {"Launching", "Waiting"} -> "Launching"
      [] p = "Evaluating" -> "Evaluating"
      [] p = "Terminated" -> "Terminated"
      [] OTHER -> "Startup"

PhaseTransitions ==
    { <<"ComputingNext", "Idling">>, <<"ComputingNext", "ComputingNext">>,
      <<"Idling", "Launching">>, <<"Launching", "Evaluating">>,
      <<"Evaluating", "ComputingNext">>, <<"Evaluating", "Terminated">> }

\* C16: once the loop is entered, a change of phase is one of ComputingNext ->
\* Idling, ComputingNext -> ComputingNext, Idling -> Launching, Launching ->
\* Evaluating, Evaluating -> ComputingNext and Evaluating -> Terminated.
C16_PhaseTransitions ==
    [][(PhaseOf(pc) # "Startup" /\ PhaseOf(pc') # PhaseOf(pc)) =>
            <<PhaseOf(pc), PhaseOf(pc')>> \in PhaseTransitions]_vars

\* the program is still running when the modelled time ends
AtHorizon == pc # "Terminated" /\ clock = MaxTime

\* C17: with a clock that only advances, fair ticking and children that exit,
\* every idle wait and every return to ComputingNext is followed by a launch
\* (within the modelled time).
C17_AlwaysLaunchesAgain ==
    (PhaseOf(pc) \in {"ComputingNext", "Idling"}) ~> (pc = "Launching" \/ AtHorizon)

\* C19: with stderr piped and never read, a launch of a child that would exit
\* on its own always completes: the loop reaches Evaluating and ComputingNext.
C19_LaunchCompletes ==
    (pc = "Waiting" /\ child_stdio.stderr = "piped") ~> (pc = "Evaluating")

====
